---- MODULE Spec2Model ----
\* A model of main.py: the line cleaner, the token extractors, the parse_jobs
\* state machine, the TSV formatter and the session store with its routes.
\*
\* Text is a sequence of characters; a character is a one-letter string.
\* Characters outside ASCII are written as two-letter tokens:
\*   "Sc" = S-cedilla, "sc" = s-cedilla, "Id" = dotted capital I,
\*   "in" = dotless small i, "Gb"/"gb" = G-breve, "Uu"/"uu" = U-umlaut,
\*   "Cc"/"cc" = C-cedilla, "NB" = no-break space,
\*   "FC" = fullwidth colon, "IC" = ideographic comma, "EM" = an emoji,
\*   "MA" = A-ring (0xC5, a mojibake marker), "M9" = the control character
\*   0x9E, "XL" = any other letter beyond Latin-1, "PU" = the private-use
\*   character U+E001 that main.py's patterns hold, "ED"/"ND" = em/en dash.
EXTENDS Integers, Sequences, FiniteSets, TLC

\* ------------------------------------------------------------------
\* Characters
\* ------------------------------------------------------------------
DigitSeq == <<"0", "1", "2", "3", "4", "5", "6", "7", "8", "9">>
UpperAZ == <<"A", "B", "C", "D", "E", "F", "G", "H", "I", "J", "K", "L", "M",
             "N", "O", "P", "Q", "R", "S", "T", "U", "V", "W", "X", "Y", "Z">>
LowerAZ == <<"a", "b", "c", "d", "e", "f", "g", "h", "i", "j", "k", "l", "m",
             "n", "o", "p", "q", "r", "s", "t", "u", "v", "w", "x", "y", "z">>
UpperTR == <<"Sc", "Gb", "Uu", "Cc">>
LowerTR == <<"sc", "gb", "uu", "cc">>

Range(f) == {f[i] : i \in DOMAIN f}
IsDigit(c) == c \in Range(DigitSeq)
IsAsciiLetter(c) == c \in Range(UpperAZ) \cup Range(LowerAZ)
IsLetter(c) == IsAsciiLetter(c) \/ c \in Range(UpperTR) \cup Range(LowerTR) \cup {"Id", "in", "MA", "XL"}
\* \s and str.strip(): space, tab, newline, no-break space
IsSpace(c) == c \in {" ", "\t", "\n", "NB"}
\* \w: letters, digits, underscore
IsWord(c) == IsLetter(c) \/ IsDigit(c) \/ c = "_"
DigitVal(c) == (CHOOSE i \in 1..10 : DigitSeq[i] = c) - 1
IndexIn(f, c) == CHOOSE i \in DOMAIN f : f[i] = c

\* str.upper(), one character at a time
UpperChar(c) ==
  IF c \in Range(LowerAZ) THEN UpperAZ[IndexIn(LowerAZ, c)]
  ELSE IF c \in Range(LowerTR) THEN UpperTR[IndexIn(LowerTR, c)]
  ELSE IF c = "in" THEN "I"
  ELSE c
Upper(s) == [i \in 1..Len(s) |-> UpperChar(s[i])]

\* re.IGNORECASE: two characters match when they fold to the same one;
\* i, I, dotless i and dotted I are all equivalent.
FoldChar(c) == IF c \in {"Id", "in"} THEN "I" ELSE UpperChar(c)
\* [A-Z] under re.IGNORECASE
IsAZ(c) == IsAsciiLetter(c) \/ c \in {"Id", "in"}

\* ------------------------------------------------------------------
\* Strings
\* ------------------------------------------------------------------
Sub(s, a, b) == IF a > b THEN <<>> ELSE SubSeq(s, a, b)
\* F(x), with x computed before F is entered
Of(F(_), x) == CHOOSE r \in {F(v) : v \in {x}} : TRUE
Drop(s, n) == Sub(s, n + 1, Len(s))
StartsWithAt(s, i, p) ==
  /\ i >= 1
  /\ i + Len(p) - 1 <= Len(s)
  /\ \A k \in 1..Len(p) : s[i + k - 1] = p[k]
StartsWith(s, p) == StartsWithAt(s, 1, p)
\* the same, under re.IGNORECASE
FoldStartsWithAt(s, i, p) ==
  /\ i >= 1
  /\ i + Len(p) - 1 <= Len(s)
  /\ \A k \in 1..Len(p) : FoldChar(s[i + k - 1]) = FoldChar(p[k])
Contains(s, p) == \E i \in 1..(Len(s) + 1) : StartsWithAt(s, i, p)
EndsWith(s, p) == Len(p) <= Len(s) /\ StartsWithAt(s, Len(s) - Len(p) + 1, p)
Count(s, c) == Cardinality({i \in 1..Len(s) : s[i] = c})
Min2(a, b) == IF a < b THEN a ELSE b
MinOf(S) == CHOOSE a \in S : \A b \in S : a <= b
MaxOf(S) == CHOOSE a \in S : \A b \in S : b <= a
\* the least element of a set of positions, 0 when it is empty
First(S) == IF S = {} THEN 0 ELSE MinOf(S)

\* the number of characters of class P(_) in a row in s from position i on
RunLen(s, i, P(_)) ==
  IF i < 1 THEN 0 ELSE Cardinality({k \in i..Len(s) : \A j \in i..k : P(s[j])})

\* \b at the gap before position i (between s[i-1] and s[i])
WordAt(s, i) == i >= 1 /\ i <= Len(s) /\ IsWord(s[i])
Boundary(s, i) == WordAt(s, i - 1) # WordAt(s, i)

\* Pattern pieces. Each takes the position p where it is tried and gives the
\* position after what it matched; position 0 means that the match failed.
\* class*
SkipWhile(s, p, P(_)) == IF p = 0 THEN 0 ELSE p + RunLen(s, p, P)
\* class+
SkipSome(s, p, P(_)) == IF p = 0 \/ RunLen(s, p, P) = 0 THEN 0 ELSE p + RunLen(s, p, P)
\* one character of a class
OneOf(s, p, P(_)) == IF p # 0 /\ p <= Len(s) /\ P(s[p]) THEN p + 1 ELSE 0
\* a literal word, under re.IGNORECASE
Lit(s, p, w) == IF p # 0 /\ FoldStartsWithAt(s, p, w) THEN p + Len(w) ELSE 0
\* \d{lo,hi} where no digit may follow: the whole run of digits
Digits(s, p, lo, hi) ==
  IF p # 0 /\ RunLen(s, p, IsDigit) >= lo /\ RunLen(s, p, IsDigit) <= hi
    THEN p + RunLen(s, p, IsDigit) ELSE 0
\* a closing \b after a word character
Edge(s, p) == IF p # 0 /\ ~WordAt(s, p) THEN p ELSE 0

\* str.strip()
RECURSIVE RStripEnd(_)
RStripEnd(s) == IF Len(s) > 0 /\ IsSpace(s[Len(s)]) THEN RStripEnd(Sub(s, 1, Len(s) - 1)) ELSE s
Strip(s) == RStripEnd(Drop(s, RunLen(s, 1, IsSpace)))
\* str.strip(ch)
RECURSIVE StripChar(_, _)
StripChar(s, c) ==
  IF Len(s) > 0 /\ s[1] = c THEN StripChar(Drop(s, 1), c)
  ELSE IF Len(s) > 0 /\ s[Len(s)] = c THEN StripChar(Sub(s, 1, Len(s) - 1), c)
  ELSE s

\* str.replace(p, r), p non-empty: from position i on, the text up to the
\* next occurrence j of p, then r, then the rest after the occurrence
RECURSIVE ReplaceFrom(_, _, _, _)
ReplaceAt(s, i, j, p, r) ==
  IF j = 0 THEN Sub(s, i, Len(s)) ELSE Sub(s, i, j - 1) \o r \o ReplaceFrom(s, j + Len(p), p, r)
ReplaceFrom(s, i, p, r) == ReplaceAt(s, i, First({j \in i..Len(s) : StartsWithAt(s, j, p)}), p, r)
Replace(s, p, r) == ReplaceFrom(s, 1, p, r)

\* re.sub(r"\s{2,}", " ", s): from position i on, the text up to the next run
\* of two or more spaces, one space for the run, then the rest
RECURSIVE CollapseFrom(_, _)
CollapseAt(s, i, j) ==
  IF j = 0 THEN Sub(s, i, Len(s))
  ELSE Sub(s, i, j - 1) \o <<" ">> \o CollapseFrom(s, j + RunLen(s, j, IsSpace))
CollapseFrom(s, i) == CollapseAt(s, i, First({j \in i..Len(s) : RunLen(s, j, IsSpace) >= 2}))
CollapseSpaces(s) == CollapseFrom(s, 1)

\* str.split(c)
RECURSIVE Split(_, _)
SplitAt(s, c, n) ==
  IF n = Len(s) THEN <<s>> ELSE <<Sub(s, 1, n)>> \o Split(Drop(s, n + 1), c)
Split(s, c) == SplitAt(s, c, RunLen(s, 1, LAMBDA ch : ch # c))

\* str.splitlines(); "\n" is the only line break of the alphabet
SplitLines(s) ==
  IF Len(s) = 0 THEN <<>>
  ELSE IF s[Len(s)] = "\n" THEN Split(Sub(s, 1, Len(s) - 1), "\n")
  ELSE Split(s, "\n")

\* sep.join(parts)
RECURSIVE Join(_, _)
Join(parts, sep) ==
  IF Len(parts) = 0 THEN <<>>
  ELSE IF Len(parts) = 1 THEN parts[1]
  ELSE parts[1] \o sep \o Join(Tail(parts), sep)

\* ------------------------------------------------------------------
\* Times
\* ------------------------------------------------------------------
\* None: the extractors return None or a non-empty string, and the caller
\* tests the result for truth, so the empty string stands for None
None == <<>>

TwoDigits(n) == <<DigitSeq[(n \div 10) + 1], DigitSeq[(n % 10) + 1]>>
RECURSIVE ToInt(_)
\* int(s) of a digit string
ToInt(s) == IF Len(s) = 0 THEN 0 ELSE 10 * ToInt(Sub(s, 1, Len(s) - 1)) + DigitVal(s[Len(s)])
\* f"{n:02d}" of a number below 100
Pad2(n) == TwoDigits(n)

\* a plausible slip: the digits as they were typed, without the zero padding
normalize_time_unpadded(hh, mm) == hh \o <<":">> \o mm

normalize_time(hh, mm) == Pad2(ToInt(hh)) \o <<":">> \o Pad2(ToInt(mm))

\* ([01]?\d|2[0-3])[:\.]([0-5]\d) matched at position i of s: the length of the
\* hour the regex engine settles on (0: no match). The two-digit hour [01]\d
\* is tried first, then the one-digit hour \d, then 2[0-3].
TimeTailAt(s, j) ==
  /\ j + 2 <= Len(s)
  /\ s[j] \in {":", "."}
  /\ s[j + 1] \in {"0", "1", "2", "3", "4", "5"}
  /\ IsDigit(s[j + 2])
HourLenAt(s, i) ==
  IF i < 1 THEN 0
  ELSE IF i + 1 <= Len(s) /\ s[i] \in {"0", "1"} /\ IsDigit(s[i + 1]) /\ TimeTailAt(s, i + 2) THEN 2
  ELSE IF i <= Len(s) /\ IsDigit(s[i]) /\ TimeTailAt(s, i + 1) THEN 1
  ELSE IF i + 1 <= Len(s) /\ s[i] = "2" /\ s[i + 1] \in {"0", "1", "2", "3"} /\ TimeTailAt(s, i + 2) THEN 2
  ELSE 0
TimeWithHour(s, i, h) == normalize_time(Sub(s, i, i + h - 1), Sub(s, i + h + 1, i + h + 2))
TimeAt(s, i) == TimeWithHour(s, i, HourLenAt(s, i))

\* ONLY_TIME_LINE_RE.match(line): ^\s*([01]?\d|2[0-3])[:\.]([0-5]\d)\s*$
\* ($ also matches before one final newline, which \s* takes anyway)
OnlyTimeStripped(t) == HourLenAt(t, 1) > 0 /\ Len(t) = HourLenAt(t, 1) + 3
OnlyTimeMatch(line) == OnlyTimeStripped(Strip(line))

\* (ALIŞ|ALIS)\s*SAAT[:\s]*([01]?\d|2[0-3])[:\.]([0-5]\d), re.IGNORECASE,
\* tried at position i: the position of the hour, or 0
AlisWord(s, i) ==
  IF FoldStartsWithAt(s, i, <<"A", "L", "I", "Sc">>) \/ FoldStartsWithAt(s, i, <<"A", "L", "I", "S">>)
    THEN i + 4 ELSE 0
HourPos(s, p) == IF p # 0 /\ HourLenAt(s, p) > 0 THEN p ELSE 0
AlisSaatAt(s, i) ==
  HourPos(s, SkipWhile(s, Lit(s, SkipWhile(s, AlisWord(s, i), IsSpace), <<"S", "A", "A", "T">>),
                       LAMBDA ch : ch = ":" \/ IsSpace(ch)))
AlisTime(line, i) == IF i = 0 THEN None ELSE TimeAt(line, AlisSaatAt(line, i))

extract_pickup_time_from_line(line) ==
  IF OnlyTimeMatch(line) THEN TimeAt(Strip(line), 1)
  ELSE AlisTime(line, First({i \in 1..Len(line) : AlisSaatAt(line, i) > 0}))

\* ------------------------------------------------------------------
\* Flight codes
\* ------------------------------------------------------------------
MinFlightLen == 4

\* FLIGHT_RE (re.IGNORECASE) tried at position i: the length matched by each
\* alternative, 0 when it does not match. A closing \b after digits means that
\* the whole run of digits is taken and no word character follows it.
EndLen(i, p) == IF p = 0 THEN 0 ELSE p - i
\* [A-Z]{lo,hi}, followed by a digit
Letters(s, p, lo, hi) ==
  IF p # 0 /\ RunLen(s, p, IsAZ) >= lo /\ RunLen(s, p, IsAZ) <= hi
    THEN p + RunLen(s, p, IsAZ) ELSE 0
\* [A-Z]{1,3}\d{2,5}
FlightAlt1(s, i) == EndLen(i, Edge(s, Digits(s, Letters(s, i, 1, 3), 2, 5)))
\* [A-Z]\d{1}[A-Z]\d{3,4}
FlightAlt2(s, i) ==
  EndLen(i, Edge(s, Digits(s, OneOf(s, OneOf(s, OneOf(s, i, IsAZ), IsDigit), IsAZ), 3, 4)))
\* [A-Z]{1,2}\d{4,5}
FlightAlt3(s, i) == EndLen(i, Edge(s, Digits(s, Letters(s, i, 1, 2), 4, 5)))
FlightLenAt(s, i) ==
  IF ~Boundary(s, i) THEN 0
  ELSE IF FlightAlt1(s, i) > 0 THEN FlightAlt1(s, i)
  ELSE IF FlightAlt2(s, i) > 0 THEN FlightAlt2(s, i)
  ELSE FlightAlt3(s, i)
\* FLIGHT_RE.fullmatch(s)
FlightFullMatch(s) ==
  Len(s) > 0 /\ Len(s) \in {FlightAlt1(s, 1), FlightAlt2(s, 1), FlightAlt3(s, 1)}

LongEnough(code) == IF Len(code) < MinFlightLen THEN None ELSE code
FlightCodeAt(line2, i) ==
  IF i = 0 THEN None
  ELSE LongEnough(Upper(Replace(Sub(line2, i, i + FlightLenAt(line2, i) - 1), <<" ">>, <<>>)))
FirstFlight(line2) == FlightCodeAt(line2, First({i \in 1..Len(line2) : FlightLenAt(line2, i) > 0}))

extract_flight_from_line(line) == FirstFlight(Replace(line, <<"*">>, <<>>))

\* ------------------------------------------------------------------
\* Dates and addresses
\* ------------------------------------------------------------------
Months == <<
  <<"Sc", "u", "b", "a", "t">>, <<"O", "c", "a", "k">>, <<"M", "a", "r", "t">>,
  <<"N", "i", "s", "a", "n">>, <<"M", "a", "y", "in", "s">>,
  <<"H", "a", "z", "i", "r", "a", "n">>, <<"T", "e", "m", "m", "u", "z">>,
  <<"A", "gb", "u", "s", "t", "o", "s">>, <<"E", "y", "l", "uu", "l">>,
  <<"E", "k", "i", "m">>, <<"K", "a", "s", "in", "m">>,
  <<"A", "r", "a", "l", "in", "k">> >>

IsDateSep(c) == c \in {".", "/"}
\* \d{1,2}[./]\d{1,2}[./]\d{2,4}\b at position i
DateAlt1(s, i) ==
  Edge(s, Digits(s, OneOf(s, Digits(s, OneOf(s, Digits(s, i, 1, 2), IsDateSep), 1, 2), IsDateSep), 2, 4)) # 0
\* \d{1,2}\s*(month)\b at position i
DateAlt2(s, i) ==
  \E m \in DOMAIN Months :
    Edge(s, Lit(s, SkipWhile(s, Digits(s, i, 1, 2), IsSpace), Months[m])) # 0
\* DATE_RE.search(line)
DateSearch(line) ==
  \E i \in 1..Len(line) : Boundary(line, i) /\ (DateAlt1(line, i) \/ DateAlt2(line, i))

AddressKeywords == {
  <<"M", "A", "H">>, <<"M", "A", "H", "A", "L", "L", "E">>, <<"C", "A", "D">>,
  <<"C", "A", "D", "D", "E", "S", "I">>, <<"C", "D", ".">>, <<"S", "O", "K">>,
  <<"S", "K", ".">>, <<"N", "O", ":">>, <<"K", "A", "T">>, <<"D", "A", "I", "R", "E">>,
  <<"F", "A", "T", "I", "H", "/">>, <<"B", "E", "Y", "O", "Gb", "L", "U", "/">>,
  <<"Id", "S", "T", "A", "N", "B", "U", "L">>, <<"T", "Uu", "R", "K", "Id", "Y", "E">>,
  <<"T", "U", "R", "K", "I", "Y", "E">> }
PostalLen == 5
ManyCommas == 3

looks_like_address(line) ==
  \/ Contains(Upper(line), <<"H", "T", "T", "P">>) \/ Contains(Upper(line), <<"W", "W", "W", ".">>)
  \/ \E i \in 1..Len(line) : Boundary(line, i) /\ Edge(line, Digits(line, i, PostalLen, PostalLen)) # 0
  \/ \E k \in AddressKeywords : Contains(Upper(line), k)
  \/ Count(line, ",") >= ManyCommas

\* ------------------------------------------------------------------
\* Cleaning
\* ------------------------------------------------------------------
\* s.encode("latin1", errors="ignore").decode("utf-8", errors="ignore"):
\* characters beyond Latin-1 are dropped, ASCII stays, and a Latin-1 character
\* survives only as part of a valid UTF-8 sequence (lead byte + continuation
\* bytes); 0xC5 0x9E is S-cedilla.
BeyondLatin1 == {"Sc", "sc", "Id", "in", "Gb", "gb", "FC", "IC", "EM", "XL", "PU", "ED", "ND"}
Lead2 == {"MA", "Uu", "Cc"}
Lead3 == {"cc"}
Continuation == {"M9", "NB"}
Latin1High == Lead2 \cup Lead3 \cup Continuation \cup {"uu"}
RECURSIVE DecodeUtf8(_)
DecodeUtf8(b) ==
  IF Len(b) = 0 THEN <<>>
  ELSE IF b[1] \notin Latin1High THEN <<b[1]>> \o DecodeUtf8(Drop(b, 1))
  ELSE IF b[1] \in Lead2 /\ Len(b) >= 2 /\ b[2] \in Continuation
    THEN <<IF b[1] = "MA" /\ b[2] = "M9" THEN "Sc" ELSE "XL">> \o DecodeUtf8(Drop(b, 2))
  ELSE IF b[1] \in Lead3 /\ Len(b) >= 3 /\ b[2] \in Continuation /\ b[3] \in Continuation
    THEN <<"XL">> \o DecodeUtf8(Drop(b, 3))
  ELSE DecodeUtf8(Drop(b, 1))

fix_mojibake(s) ==
  IF Len(s) = 0 THEN s
  ELSE IF Contains(s, <<"MA">>)
    THEN DecodeUtf8(SelectSeq(s, LAMBDA ch : ch \notin BeyondLatin1))
  ELSE s

SenderMax == 80
\* \s*[^:]{1,80}: at position r, where n characters precede the colon and
\* w0 of them, at the start, are spaces that \s* may take
SenderEnd(s, r, n, w0) ==
  IF r # 0 /\ n >= 1 /\ r + n <= Len(s) /\ n - Min2(w0, n - 1) <= SenderMax THEN r + n + 1 ELSE 0
Sender(s, r) == SenderEnd(s, r, RunLen(s, r, LAMBDA ch : ch # ":"), RunLen(s, r, IsSpace))
\* (?:[./]\d{2,4})?
OptYear(s, p) == IF p # 0 /\ p <= Len(s) /\ IsDateSep(s[p]) THEN Digits(s, p + 1, 2, 4) ELSE p
IsPU(c) == c = "PU"
IsTimeSep(c) == c \in {":", "."}
\* WHATSAPP_PREFIX_RE matched at the start of s: the position after the
\* match, 0 for no match. The pattern holds the character U+E001 before the
\* date and after the time.
WhatsAppDate(s) ==
  OptYear(s, Digits(s, OneOf(s, Digits(s, OneOf(s, SkipWhile(s, 1, IsSpace), IsPU), 1, 2), IsDateSep), 1, 2))
WhatsAppTime(s, p) ==
  OneOf(s, Digits(s, OneOf(s, Digits(s, SkipSome(s, p, IsSpace), 1, 2), IsTimeSep), 2, 2), IsPU)
WhatsAppPrefixEnd(s) == SkipWhile(s, Sender(s, WhatsAppTime(s, WhatsAppDate(s))), IsSpace)
\* WHATSAPP_PREFIX_RE.sub("", s)
DropPrefix(s) == IF WhatsAppPrefixEnd(s) = 0 THEN s ELSE Drop(s, WhatsAppPrefixEnd(s) - 1)

\* re.sub(r"\b(Yarın için|Bugün için)\b", "", s, flags=re.IGNORECASE)
ForPhrases == << <<"Y", "a", "r", "in", "n", " ", "i", "cc", "i", "n">>,
                 <<"B", "u", "g", "uu", "n", " ", "i", "cc", "i", "n">> >>
PhraseAt(s, i, p) == Boundary(s, i) /\ FoldStartsWithAt(s, i, p) /\ Boundary(s, i + Len(p))
PhraseLenAt(s, i) ==
  IF PhraseAt(s, i, ForPhrases[1]) THEN Len(ForPhrases[1])
  ELSE IF PhraseAt(s, i, ForPhrases[2]) THEN Len(ForPhrases[2])
  ELSE 0
\* from position i on: the text up to the next phrase, then the rest after it
RECURSIVE RemovePhrasesFrom(_, _)
RemovePhrasesAt(s, i, j) ==
  IF j = 0 THEN Sub(s, i, Len(s))
  ELSE Sub(s, i, j - 1) \o RemovePhrasesFrom(s, j + PhraseLenAt(s, j))
RemovePhrasesFrom(s, i) == RemovePhrasesAt(s, i, First({j \in i..Len(s) : PhraseLenAt(s, j) > 0}))

Landed == <<"U", "cc", "a", "k", " ", "i", "n", "m", "i", "sc">>
NoEmoji(s) == SelectSeq(s, LAMBDA ch : ch # "EM")

clean_line(line) ==
  Of(LAMBDA e : Strip(CollapseSpaces(e)),
    Of(LAMBDA d : Strip(NoEmoji(d)),
      Of(LAMBDA c : Strip(RemovePhrasesFrom(c, 1)),
        Of(LAMBDA b : Strip(Replace(b, Landed, <<>>)),
          Of(DropPrefix,
            Of(LAMBDA a : Strip(Replace(a, <<"NB">>, <<" ">>)),
              Of(fix_mojibake, line)))))))

\* ------------------------------------------------------------------
\* Noise and names
\* ------------------------------------------------------------------
BadStarts == {
  <<"A", "L", "I", "Sc", " ", "S", "A", "A", "T">>, <<"A", "L", "I", "S", " ", "S", "A", "A", "T">>,
  <<"T", "R", "A", "N", "S", "F", "E", "R">>, <<"A", "R", "A", "Cc">>, <<"A", "R", "A", "C">>,
  <<"O", "T", "E", "L">>, <<"U", "Cc", "A", "K", " ", "K", "O", "D">>,
  <<"U", "C", "A", "K", " ", "K", "O", "D">>, <<"U", "Cc", "U", "Sc">>, <<"U", "C", "U", "S">>,
  <<"U", "Cc", "U", "Sc", " ", "K", "O", "D">>, <<"U", "C", "U", "S", " ", "K", "O", "D">>,
  <<"P", "A", "X">>, <<"I", "S", "T", " ", "A", "L", "I", "Sc">>,
  <<"I", "S", "T", " ", "A", "L", "I", "S">> }
Separators == { <<"?">>, <<"-">>, <<"ED">>, <<"ND">>, <<"'", "'">>, <<"\"", "\"">> }

is_noise_line(line) ==
  IF Len(line) = 0 THEN TRUE
  ELSE IF DateSearch(line) THEN ~OnlyTimeMatch(line)
  ELSE IF looks_like_address(line) THEN TRUE
  ELSE IF \E b \in BadStarts : StartsWith(Upper(line), b) THEN FALSE
  ELSE Upper(line) \in Separators

PhoneMiddleMin == 7
IsPhoneMid(c) == IsDigit(c) \/ IsSpace(c) \/ c \in {"-", "PU"}
\* \d[\d\s\-..]{7,}\d at position d0, where run characters of the middle
\* class follow the first digit: the length of the match, 0 for none
PhoneEnd(s, d0, ends) == IF ends = {} THEN 0 ELSE MaxOf(ends) + 2
PhoneDigitsAt(s, d0) ==
  IF d0 <= Len(s) /\ IsDigit(s[d0])
    THEN PhoneEnd(s, d0, {m \in PhoneMiddleMin..(RunLen(s, d0 + 1, IsPhoneMid) - 1) : IsDigit(s[d0 + 1 + m])})
    ELSE 0
\* \+?\d[\d\s\-..]{7,}\d at position i
PhoneLenAt(s, i) ==
  IF s[i] = "+" THEN (IF PhoneDigitsAt(s, i + 1) > 0 THEN 1 + PhoneDigitsAt(s, i + 1) ELSE 0)
  ELSE PhoneDigitsAt(s, i)
\* from position i on: the text up to the next phone number, then the rest after it
RECURSIVE RemovePhonesFrom(_, _)
RemovePhonesAt(s, i, j) ==
  IF j = 0 THEN Sub(s, i, Len(s))
  ELSE Sub(s, i, j - 1) \o RemovePhonesFrom(s, j + PhoneLenAt(s, j))
RemovePhonesFrom(s, i) == RemovePhonesAt(s, i, First({j \in i..Len(s) : PhoneLenAt(s, j) > 0}))
strip_phones(s) == Of(LAMBDA t : Strip(CollapseSpaces(t)), RemovePhonesFrom(s, 1))

\* (İSİM|ISIM)\s*LİSTESİ\s*[:：]\s*(.+)$ (re.IGNORECASE) at position i: the
\* position where group 2 starts, 0 for no match
IsListColon(c) == c \in {":", "FC"}
GroupStart(s, p) == IF p = 0 \/ p > Len(s) THEN 0 ELSE Min2(p + RunLen(s, p, IsSpace), Len(s))
NameListAt(s, i) ==
  GroupStart(s,
    OneOf(s,
      SkipWhile(s, Lit(s, SkipWhile(s, Lit(s, i, <<"I", "S", "I", "M">>), IsSpace),
                       <<"L", "I", "S", "T", "E", "S", "I">>), IsSpace),
      IsListColon))

\* [A-Za-zÇĞİÖŞÜçğıöşüÀ-ÿ\s\-']
IsNameChar(c) ==
  \/ IsAsciiLetter(c) \/ c \in Range(UpperTR) \cup Range(LowerTR) \cup {"Id", "in", "MA"}
  \/ IsSpace(c) \/ c \in {"-", "'"}
MinNameChars == 2

UnquotePart(p) == StripChar(StripChar(Strip(p), "\""), "'")
UnquoteAll(parts) == [n \in 1..Len(parts) |-> UnquotePart(parts[n])]
\* lines 247-251
ListNames(s0, g) ==
  SelectSeq(Of(UnquoteAll, Of(LAMBDA t : Split(t, ","),
                              Of(LAMBDA t : Replace(t, <<"IC">>, <<",">>), Strip(Drop(s0, g - 1))))),
            LAMBDA q : Len(q) > 0)
\* re.sub(r"^\s*\d+\.\s*", "", s).strip()
NumberEnd(s) == SkipWhile(s, OneOf(s, SkipSome(s, SkipWhile(s, 1, IsSpace), IsDigit), LAMBDA ch : ch = "."), IsSpace)
Unnumber(s) == IF NumberEnd(s) = 0 THEN Strip(s) ELSE Strip(Drop(s, NumberEnd(s) - 1))
\* lines 277-282
Unquoted(s) == Strip(StripChar(StripChar(Strip(s), "\""), "'"))
NameOrNothing(s3) == IF Len(s3) = 0 THEN <<>> ELSE <<s3>>
\* lines 266-282
PlainName(s2) ==
  IF Len(SelectSeq(s2, IsNameChar)) < MinNameChars THEN <<>>
  ELSE IF OnlyTimeMatch(s2) THEN <<>>
  ELSE IF Of(FlightFullMatch, Replace(s2, <<" ">>, <<>>)) THEN <<>>
  ELSE NameOrNothing(Unquoted(s2))
NamesAt(s0, i) ==
  IF i # 0 THEN ListNames(s0, NameListAt(s0, i)) ELSE Of(PlainName, Of(strip_phones, Of(Unnumber, s0)))
NamesOfStripped(s0) == NamesAt(s0, First({i \in 1..Len(s0) : NameListAt(s0, i) > 0}))

extract_names_from_line(line) == Of(NamesOfStripped, Strip(line))

\* ------------------------------------------------------------------
\* parse_jobs
\* ------------------------------------------------------------------
Q == <<"?">>
SAW == <<"S", "A", "W">>
\* Python's `v or "?"`
OrQ(v) == IF Len(v) = 0 THEN Q ELSE v

\* what the loop body of parse_jobs reads off one cleaned line
LineFacts(cl) ==
  [saw |-> Contains(Upper(cl), SAW),
   address |-> looks_like_address(cl),
   flight |-> extract_flight_from_line(cl),
   time |-> extract_pickup_time_from_line(cl),
   date |-> DateSearch(cl) /\ ~OnlyTimeMatch(cl),
   noise |-> is_noise_line(cl),
   names |-> extract_names_from_line(cl)]

\* pending state of the parser: the locals of parse_jobs
NoPending(jobs) ==
  [jobs |-> jobs, pending_names |-> <<>>, pending_flight |-> Q, pending_drop |-> FALSE]

\* a plausible slip: repeats recognised whatever their letter case
RECURSIVE Dedup_fold(_, _)
DedupOne_fold(names, uniq, n2) ==
  IF Len(n2) = 0 \/ \E u \in Range(uniq) : Upper(u) = Upper(n2) THEN Dedup_fold(Tail(names), uniq)
  ELSE Dedup_fold(Tail(names), Append(uniq, n2))
Dedup_fold(names, uniq) ==
  IF Len(names) = 0 THEN uniq ELSE DedupOne_fold(names, uniq, Strip(names[1]))

\* lines 329-338: strip every name, drop the empty ones and the repeats
RECURSIVE Dedup(_, _)
DedupOne(names, uniq, n2) ==
  IF Len(n2) = 0 \/ n2 \in Range(uniq) THEN Dedup(Tail(names), uniq)
  ELSE Dedup(Tail(names), Append(uniq, n2))
Dedup(names, uniq) == IF Len(names) = 0 THEN uniq ELSE DedupOne(names, uniq, Strip(names[1]))

CommaSpace == <<",", " ">>

\* a plausible slip: the test of lines 322-327 left out, so that a record is
\* appended although no name is pending
finalize_nameless(st, time_str, drop_saw) ==
  IF drop_saw /\ st.pending_drop THEN NoPending(st.jobs)
  ELSE NoPending(Append(st.jobs,
         [saat |-> OrQ(time_str),
          ucus |-> OrQ(st.pending_flight),
          yolcu |-> Join(Dedup(st.pending_names, <<>>), CommaSpace)]))

\* a plausible slip: line 346 left out, so that the names stay pending
finalize_carry(st, time_str, drop_saw) ==
  IF drop_saw /\ st.pending_drop THEN NoPending(st.jobs)
  ELSE IF Len(st.pending_names) = 0 THEN NoPending(st.jobs)
  ELSE [NoPending(Append(st.jobs,
          [saat |-> OrQ(time_str),
           ucus |-> OrQ(st.pending_flight),
           yolcu |-> Join(Dedup(st.pending_names, <<>>), CommaSpace)]))
        EXCEPT !.pending_names = st.pending_names]

\* a plausible slip: line 347 left out, so that the flight stays pending
finalize_keep_flight(st, time_str, drop_saw) ==
  IF drop_saw /\ st.pending_drop THEN NoPending(st.jobs)
  ELSE IF Len(st.pending_names) = 0 THEN NoPending(st.jobs)
  ELSE [NoPending(Append(st.jobs,
          [saat |-> OrQ(time_str),
           ucus |-> OrQ(st.pending_flight),
           yolcu |-> Join(Dedup(st.pending_names, <<>>), CommaSpace)]))
        EXCEPT !.pending_flight = st.pending_flight]
finalize(st, time_str, drop_saw) ==
  IF drop_saw /\ st.pending_drop THEN NoPending(st.jobs)
  ELSE IF Len(st.pending_names) = 0 THEN NoPending(st.jobs)
  ELSE NoPending(Append(st.jobs,
         [saat |-> OrQ(time_str),
          ucus |-> OrQ(st.pending_flight),
          yolcu |-> Join(Dedup(st.pending_names, <<>>), CommaSpace)]))

\* lines 359-362
WithFlight(st, f) == IF f.flight # None THEN [st EXCEPT !.pending_flight = f.flight] ELSE st
\* lines 364-390
AfterFlight(st, f, drop_saw) ==
  IF f.time # None
    THEN (IF Len(st.pending_names) > 0 \/ (Len(st.pending_flight) > 0 /\ st.pending_flight # Q)
            THEN finalize(st, f.time, drop_saw)
            ELSE st)
  ELSE IF f.date THEN st
  ELSE IF f.noise THEN [st EXCEPT !.pending_names = st.pending_names \o f.names]
  ELSE [st EXCEPT !.pending_names = st.pending_names \o f.names]

\* a plausible slip: the `continue` of line 373 left out, so that a line with a
\* pickup time goes on to the name extraction of lines 387-390
TimeStep(st, f, drop_saw) ==
  IF f.time # None /\ (Len(st.pending_names) > 0 \/ (Len(st.pending_flight) > 0 /\ st.pending_flight # Q))
    THEN finalize(st, f.time, drop_saw) ELSE st
NamesStep(st, f) ==
  IF f.date THEN st ELSE [st EXCEPT !.pending_names = st.pending_names \o f.names]
ParseLineFacts_no_continue(st, f, drop_saw) ==
  IF drop_saw /\ f.saw THEN [st EXCEPT !.pending_drop = TRUE]
  ELSE IF f.address THEN st
  ELSE NamesStep(TimeStep(WithFlight(st, f), f, drop_saw), f)

\* a plausible slip: the pickup time of a line handled before its flight, so
\* that the flight of a line with both waits for the next record
ParseLineFacts_time_first(st, f, drop_saw) ==
  IF drop_saw /\ f.saw THEN [st EXCEPT !.pending_drop = TRUE]
  ELSE IF f.address THEN st
  ELSE IF f.time # None THEN WithFlight(TimeStep(st, f, drop_saw), f)
  ELSE AfterFlight(WithFlight(st, f), f, drop_saw)

\* a plausible slip: the test of lines 355-357 left out, so that an address
\* line goes on to the flight, time and name extraction
ParseLineFacts_no_address_skip(st, f, drop_saw) ==
  IF drop_saw /\ f.saw THEN [st EXCEPT !.pending_drop = TRUE]
  ELSE AfterFlight(WithFlight(st, f), f, drop_saw)
\* one pass of the loop at lines 350-390 over the facts f of a cleaned line
ParseLineFacts(st, f, drop_saw) ==
  IF drop_saw /\ f.saw THEN [st EXCEPT !.pending_drop = TRUE]
  ELSE IF f.address THEN st
  ELSE AfterFlight(WithFlight(st, f), f, drop_saw)

\* ------------------------------------------------------------------
\* jobs_to_tsv
\* ------------------------------------------------------------------
TAB == <<"\t">>
NL == <<"\n">>
RowOf(j) ==
  Strip(OrQ(j.saat)) \o TAB \o TAB \o Upper(Strip(OrQ(j.ucus))) \o TAB \o Strip(OrQ(j.yolcu))
RowsOf(js) == [k \in 1..Len(js) |-> RowOf(js[k])]
\* Saat, blank, Ucus, Yolcu: the header row the specification describes
HeaderRow == <<"S", "a", "a", "t", "\t", "\t", "U", "cc", "u", "sc", "\t", "Y", "o", "l", "c", "u">>
\* the rendering with that header row first
jobs_to_tsv_with_header(js) == Join(<<HeaderRow>> \o RowsOf(js), NL)
\* a plausible slip: equal rows rendered once
RECURSIVE MergedRows(_, _)
MergedRows(rows, seen) ==
  IF Len(rows) = 0 THEN seen
  ELSE MergedRows(Tail(rows), IF rows[1] \in Range(seen) THEN seen ELSE Append(seen, rows[1]))
jobs_to_tsv_merged(js) == Join(MergedRows(RowsOf(js), <<>>), NL)
jobs_to_tsv(js) == Join(RowsOf(js), NL)

\* ------------------------------------------------------------------
\* Inputs
\* ------------------------------------------------------------------
MaxLines == 4
MaxDeep == 5

L_Al == <<"A", "l">>
L_AL == <<"A", "L">>
L_Kate == <<"K", "a", "t", "e">>
L_TK17 == <<"T", "K", "1", "7">>
L_0905 == <<"9", ":", "0", "5">>
L_AlisQR == <<"a", "l", "i", "s", " ", "s", "a", "a", "t", " ", "7", ".", "3", "0", " ", "Q", "R", "1", "2">>
L_Saw == <<"s", "a", "w">>
L_Addr == <<"K", "a", "t", " ", "1", ",", "B", "o", ",", "b">>
ListLabel == <<"i", "s", "i", "m", " ", "l", "i", "s", "t", "e", "s", "i", ":">>
\* isim listesi:Al," Al",AL
L_List == ListLabel \o <<"A", "l", ",", "\"", " ", "A", "l", "\"", ",", "A", "L">>
\* isim listesi:" "
L_Blank == ListLabel \o <<"\"", " ", "\"">>

Vocab == {L_Al, L_AL, L_TK17, L_0905, L_AlisQR, L_Saw, L_Addr, L_List, L_Blank}
CoreVocab == {L_Al, L_AL, L_Kate, L_TK17, L_0905}
AllLines == Vocab \cup CoreVocab

\* the sequences over S of length up to n
SeqsUpTo(S, n) == UNION {[1..k -> S] : k \in 0..n}

\* the cleaned lines of the vocabularies, with what the parser reads off each
CleanPairs == {<<l, clean_line(l)>> : l \in AllLines}
FactPairs == {<<p[2], LineFacts(p[2])>> : p \in CleanPairs}
Clean(l) ==
  IF l \in AllLines THEN (CHOOSE p \in CleanPairs : p[1] = l)[2] ELSE clean_line(l)
Facts(cl) ==
  IF \E p \in FactPairs : p[1] = cl THEN (CHOOSE p \in FactPairs : p[1] = cl)[2] ELSE LineFacts(cl)

\* lines 295-307: repair, split, clean, and keep the non-empty lines
CleanAll(lines0) == [k \in 1..Len(lines0) |-> Clean(lines0[k])]
PreClean(text) ==
  SelectSeq(Of(CleanAll, Of(SplitLines, Of(fix_mojibake, text))), LAMBDA cl : Len(cl) > 0)

ParseLine(st, cl, drop) == ParseLineFacts(st, Facts(cl), drop)

RECURSIVE ParseLoop(_, _, _)
ParseLoop(st, ls, drop) ==
  IF Len(ls) = 0 THEN st
  ELSE Of(LAMBDA st1 : ParseLoop(st1, Tail(ls), drop), ParseLine(st, ls[1], drop))

parse_jobs(text, drop) == ParseLoop(NoPending(<<>>), PreClean(text), drop).jobs

\* ------------------------------------------------------------------
\* The session store (db.json)
\* ------------------------------------------------------------------
\* The store is modelled as db["sessions"]: a function from the ids of the
\* existing sessions to their records. The field updated_at is a wall-clock
\* stamp that nothing reads; it is left out.
MaxSessions == 2
MaxAdds == 3
SessionIds == 1..MaxSessions
NoCookie == 0
EmptySession == [buffer |-> <<>>, last_result_tsv |-> <<>>]
NoResp == [route |-> "none", sid |-> NoCookie, cookie |-> NoCookie, body |-> <<>>]
BOM == <<"BOM">>

Put(f, k, v) == [i \in DOMAIN f \cup {k} |-> IF i = k THEN v ELSE f[i]]
\* db["sessions"].setdefault(session_id, {...})
SessionOf(d, session_id) == IF session_id \in DOMAIN d THEN d[session_id] ELSE EmptySession

\* lines 30-40; fresh stands for uuid4().hex
get_or_create_session(d, session_id, fresh) ==
  IF session_id = NoCookie \/ session_id \notin DOMAIN d
    THEN [db |-> Put(d, fresh, EmptySession), sid |-> fresh]
    ELSE [db |-> d, sid |-> session_id]

\* lines 47-48
Joined(buffer) == IF Len(buffer) > 0 /\ ~EndsWith(buffer, NL) THEN buffer \o NL ELSE buffer
\* a plausible slip: the newline added whatever the buffer holds
append_to_buffer_newline_always(d, session_id, text) ==
  Put(d, session_id,
      IF Len(text) > 0
        THEN [SessionOf(d, session_id) EXCEPT !.buffer = SessionOf(d, session_id).buffer \o NL \o text]
        ELSE SessionOf(d, session_id))
append_to_buffer(d, session_id, text) ==
  Put(d, session_id,
      IF Len(text) > 0
        THEN [SessionOf(d, session_id) EXCEPT !.buffer = Joined(SessionOf(d, session_id).buffer) \o text]
        ELSE SessionOf(d, session_id))

\* the set_buffer that clears the last result with the buffer
set_buffer_wipe(d, session_id, text) ==
  Put(d, session_id, [buffer |-> text, last_result_tsv |-> <<>>])
set_buffer(d, session_id, text) ==
  Put(d, session_id,
      [buffer |-> text,
       last_result_tsv |-> IF session_id \in DOMAIN d THEN d[session_id].last_result_tsv ELSE <<>>])

get_buffer(d, session_id) == IF session_id \in DOMAIN d THEN d[session_id].buffer ELSE <<>>

\* a plausible slip: the buffer emptied as its result is stored
set_last_result_consume(d, session_id, t) ==
  Put(d, session_id, [buffer |-> <<>>, last_result_tsv |-> t])
set_last_result(d, session_id, t) ==
  Put(d, session_id, [SessionOf(d, session_id) EXCEPT !.last_result_tsv = t])

get_last_result(d, session_id) ==
  IF session_id \in DOMAIN d THEN d[session_id].last_result_tsv ELSE <<>>

\* ------------------------------------------------------------------
\* State
\* ------------------------------------------------------------------
VARIABLES
  raw,             \* parse_jobs: the text given
  drop_saw,        \* parse_jobs: the flag given (in the routes, by the latest /finish)
  pc,              \* parse_jobs: "clean", "loop", "done"
  lines,           \* the cleaned non-empty lines
  idx,             \* the next line of the loop at line 350
  jobs, pending_names, pending_flight, pending_drop,
  anchors,         \* history: for each job, the index of the line that emitted it
  tsv,             \* jobs_to_tsv(jobs), once rendered
  db,              \* db.json: session id -> [buffer, last_result_tsv]
  resp,            \* the last response: its route, its session, its cookie and its payload
  added,           \* history: session id -> the texts given to /add since creation or /reset
  finished,        \* history: session id -> the TSV of the session's latest /finish
  n_adds,          \* history: the number of /add requests so far
  threads          \* the requests in progress, each with its locals (empty where requests
                   \* are handled one at a time)

pvars == <<raw, drop_saw, pc, lines, idx, jobs, pending_names, pending_flight, pending_drop, anchors, tsv>>
svars == <<db, resp, added, finished, n_adds>>
rvars == <<threads>>
vars == <<pvars, svars, rvars>>

Pending ==
  [jobs |-> jobs, pending_names |-> pending_names, pending_flight |-> pending_flight,
   pending_drop |-> pending_drop]

InitParse(inputs) ==
  /\ raw \in {Join(i, NL) : i \in inputs}
  /\ drop_saw \in BOOLEAN
  /\ pc = "clean"
  /\ lines = <<>>
  /\ idx = 1
  /\ jobs = <<>>
  /\ pending_names = <<>>
  /\ pending_flight = Q
  /\ pending_drop = FALSE
  /\ anchors = <<>>
  /\ tsv = <<>>
  /\ db = <<>>
  /\ resp = NoResp
  /\ added = <<>>
  /\ finished = <<>>
  /\ n_adds = 0
  /\ threads = <<>>

\* lines 295-312
CleanStep ==
  /\ pc = "clean"
  /\ lines' = PreClean(raw)
  /\ pc' = "loop"
  /\ UNCHANGED <<raw, drop_saw, idx, jobs, pending_names, pending_flight, pending_drop, anchors, tsv, svars, rvars>>

\* one pass of the loop at lines 350-390
LoopStep ==
  /\ pc = "loop"
  /\ idx <= Len(lines)
  /\ \E st \in {ParseLine(Pending, lines[idx], drop_saw)} :
       /\ jobs' = st.jobs
       /\ pending_names' = st.pending_names
       /\ pending_flight' = st.pending_flight
       /\ pending_drop' = st.pending_drop
       /\ anchors' = IF Len(st.jobs) > Len(jobs) THEN Append(anchors, idx) ELSE anchors
  /\ idx' = idx + 1
  /\ UNCHANGED <<raw, drop_saw, pc, lines, tsv, svars, rvars>>

\* a plausible slip: the names still pending at the end of the input closed
\* into a last record, with no time
ReturnStep_flush ==
  /\ pc = "loop"
  /\ idx > Len(lines)
  /\ \E st \in {finalize(Pending, <<>>, drop_saw)} :
       /\ jobs' = st.jobs
       /\ pending_names' = st.pending_names
       /\ pending_flight' = st.pending_flight
       /\ pending_drop' = st.pending_drop
       /\ anchors' = IF Len(st.jobs) > Len(jobs) THEN Append(anchors, idx) ELSE anchors
       /\ tsv' = jobs_to_tsv(st.jobs)
  /\ pc' = "done"
  /\ UNCHANGED <<raw, drop_saw, lines, idx, svars, rvars>>
\* line 392, and finish's rendering of the result (line 546)
ReturnStep ==
  /\ pc = "loop"
  /\ idx > Len(lines)
  /\ tsv' = jobs_to_tsv(jobs)
  /\ pc' = "done"
  /\ UNCHANGED <<raw, drop_saw, lines, idx, jobs, pending_names, pending_flight, pending_drop, anchors, svars, rvars>>

NextParse == CleanStep \/ LoopStep \/ ReturnStep

\* parse_jobs and jobs_to_tsv on every text of up to MaxLines vocabulary lines
SpecParse == InitParse(SeqsUpTo(Vocab, MaxLines)) /\ [][NextParse]_vars
\* the same on the texts of up to MaxDeep lines of names, flights and times
SpecDeep == InitParse(SeqsUpTo(CoreVocab, MaxDeep)) /\ [][NextParse]_vars

\* ------------------------------------------------------------------
\* Time tokens: a name line, then a line with one token
\* ------------------------------------------------------------------
AlisPrefix == <<"a", "l", "i", "s", " ", "s", "a", "a", "t", " ">>
\* hours 0-23 as typed, with and without the zero, and three that are no hours
HourTexts ==
  {<<DigitSeq[n + 1]>> : n \in 0..9} \cup {TwoDigits(n) : n \in 0..23}
    \cup {TwoDigits(n) : n \in {24, 29, 30}}
\* minutes 00-59, and five that are no minutes
MinuteTexts ==
  {TwoDigits(n) : n \in 0..59} \cup {TwoDigits(60), TwoDigits(99)}
    \cup {<<"5">>, <<"3", "0", "5">>, <<"0", "7", "5">>}
TimeTokens == {h \o <<sep>> \o m : h \in HourTexts, sep \in {":", "."}, m \in MinuteTexts}
\* the token on a line of its own, and after "alis saat"
TokenLines == TimeTokens \cup {AlisPrefix \o t : t \in TimeTokens}
TokenTexts == {<<L_Al, l>> : l \in TokenLines}

\* parse_jobs and jobs_to_tsv on a name and a time token
InitTime == InitParse(TokenTexts) /\ drop_saw = FALSE
SpecTime == InitTime /\ [][NextParse]_vars

\* ------------------------------------------------------------------
\* Chat lines: a first line with or without a prefix, then flights and times
\* ------------------------------------------------------------------
MaxTail == 2
N_Funda == <<"F", "u", "n", "d", "a", " ", "K", "a", "r", "a">>
N_Ready == <<"t", "r", "a", "n", "s", "f", "e", "r", " ", "r", "e", "a", "d", "y">>
P_Sender == <<"E", "y", "uu", "p", " ", "A", "b", "i", ":", " ">>
P_Time == <<"1", "1", ":", "5", "0", ":", " ">>
P_Dated ==
  <<"1", "6", ".", "0", "2", ".", "2", "0", "2", "6", " ", "1", "1", ":", "5", "0", " ", "E", "y", "uu", "p", " ", "A", "b", "i", ":", " ">>
\* the same between the delimiters U+E001 that the pattern of line 93 is written with
P_Delimited ==
  <<"PU", "1", "6", ".", "0", "2", ".", "2", "0", "2", "6", " ", "1", "1", ":", "5", "0", "PU", " ", "E", "y", "uu", "p", " ", "A", "b", "i", ":", " ">>
Prefixes == {<<>>, P_Sender, P_Time, P_Dated, P_Delimited}
ChatLines == {p \o n : p \in Prefixes, n \in {N_Funda, N_Ready}}
ChatTexts == {<<l>> \o t : l \in ChatLines, t \in SeqsUpTo({L_TK17, L_0905}, MaxTail)}

\* parse_jobs and jobs_to_tsv on a chat line and what follows it
SpecChat == InitParse(ChatTexts) /\ [][NextParse]_vars

\* ------------------------------------------------------------------
\* The routes, each handled from its first line to its last
\* ------------------------------------------------------------------
T_Empty == <<>>
T_Job == <<"\n">> \o L_Al \o NL \o L_0905 \o <<" ">>
T_Flight == L_TK17 \o NL
AddTexts == {T_Empty, T_Job, T_Flight}
Cookies == {NoCookie} \cup SessionIds

InitStore ==
  /\ raw = <<>>
  /\ drop_saw = FALSE
  /\ pc = "idle"
  /\ lines = <<>>
  /\ idx = 1
  /\ jobs = <<>>
  /\ pending_names = <<>>
  /\ pending_flight = Q
  /\ pending_drop = FALSE
  /\ anchors = <<>>
  /\ tsv = <<>>
  /\ db = <<>>
  /\ resp = NoResp
  /\ added = <<>>
  /\ finished = <<>>
  /\ n_adds = 0
  /\ threads = <<>>

\* the ids uuid4 may return when the cookie names no session
FreshIds(cookie) ==
  IF cookie = NoCookie \/ cookie \notin DOMAIN db THEN SessionIds \ DOMAIN db ELSE {NoCookie}
\* the session a request with this cookie works on, and the store once it exists
Sessions(cookie) == {get_or_create_session(db, cookie, fresh) : fresh \in FreshIds(cookie)}
\* the histories of a session, started when it is created
HistOf(h, sid) == IF sid \in DOMAIN h THEN h[sid] ELSE <<>>
Touch(h, sid) == Put(h, sid, HistOf(h, sid))

\* GET / (lines 510-517)
Home(cookie) ==
  \E r \in Sessions(cookie) :
    /\ db' = r.db
    /\ resp' = [route |-> "home", sid |-> r.sid, cookie |-> r.sid, body |-> get_buffer(r.db, r.sid)]
    /\ added' = Touch(added, r.sid)
    /\ finished' = Touch(finished, r.sid)
    /\ UNCHANGED <<pvars, n_adds, rvars>>

\* POST /add (lines 520-534)
AddPiece(cookie, text) ==
  /\ n_adds < MaxAdds
  /\ \E r \in Sessions(cookie) :
       \E d1 \in {append_to_buffer(r.db, r.sid, Strip(text))} :
         /\ db' = d1
         /\ resp' = [route |-> "add", sid |-> r.sid, cookie |-> r.sid, body |-> get_buffer(d1, r.sid)]
         /\ added' = Put(added, r.sid, Append(HistOf(added, r.sid), text))
         /\ finished' = Touch(finished, r.sid)
  /\ n_adds' = n_adds + 1
  /\ UNCHANGED <<pvars, rvars>>

\* POST /finish (lines 537-549); the response sets no cookie
Finish(cookie, drop) ==
  \E r \in Sessions(cookie) :
    \E out \in {jobs_to_tsv(parse_jobs(get_buffer(r.db, r.sid), drop))} :
      /\ db' = set_last_result(r.db, r.sid, out)
      /\ resp' = [route |-> "finish", sid |-> r.sid, cookie |-> NoCookie, body |-> out]
      /\ added' = Touch(added, r.sid)
      /\ finished' = Put(finished, r.sid, out)
      /\ drop_saw' = drop
      /\ UNCHANGED <<raw, pc, lines, idx, jobs, pending_names, pending_flight, pending_drop,
                     anchors, tsv, n_adds, rvars>>

\* GET /download (lines 552-562); the response sets no cookie
Download(cookie) ==
  \E r \in Sessions(cookie) :
    /\ db' = r.db
    /\ resp' = [route |-> "download", sid |-> r.sid, cookie |-> NoCookie,
                body |-> BOM \o get_last_result(r.db, r.sid)]
    /\ added' = Touch(added, r.sid)
    /\ finished' = Touch(finished, r.sid)
    /\ UNCHANGED <<pvars, n_adds, rvars>>

\* POST /reset (lines 565-572)
Reset(cookie) ==
  \E r \in Sessions(cookie) :
    /\ db' = set_buffer(r.db, r.sid, <<>>)
    /\ resp' = [route |-> "reset", sid |-> r.sid, cookie |-> r.sid, body |-> <<>>]
    /\ added' = Put(added, r.sid, <<>>)
    /\ finished' = Touch(finished, r.sid)
    /\ UNCHANGED <<pvars, n_adds, rvars>>

HomeReq == \E c \in Cookies : Home(c)
AddReq == \E c \in Cookies, t \in AddTexts : AddPiece(c, t)
FinishReq == \E c \in Cookies, d \in BOOLEAN : Finish(c, d)
DownloadReq == \E c \in Cookies : Download(c)
ResetReq == \E c \in Cookies : Reset(c)

NextStore == HomeReq \/ AddReq \/ FinishReq \/ DownloadReq \/ ResetReq

SpecStore == InitStore /\ [][NextStore]_vars
\* ------------------------------------------------------------------
\* The routes, step by step. The routes are plain functions, which FastAPI
\* runs on the threads of a pool, and every helper of lines 30-79 loads the
\* whole of db.json and, if it changes anything, saves the whole of it back
\* with no lock held in between. Each request is a thread; each _load_db and
\* each _save_db is a step of its own.
\* ------------------------------------------------------------------
MaxRequests == 2
Threads == 1..MaxRequests
RaceTexts == {T_Job, T_Flight}
Idle ==
  [route |-> "idle", pc |-> "idle", cookie |-> NoCookie, text |-> <<>>, drop |-> FALSE,
   sid |-> NoCookie, mem |-> <<>>, out |-> <<>>]

InitRace ==
  /\ raw = <<>>
  /\ drop_saw = FALSE
  /\ pc = "idle"
  /\ lines = <<>>
  /\ idx = 1
  /\ jobs = <<>>
  /\ pending_names = <<>>
  /\ pending_flight = Q
  /\ pending_drop = FALSE
  /\ anchors = <<>>
  /\ tsv = <<>>
  /\ db = <<>>
  /\ resp = NoResp
  /\ added = <<>>
  /\ finished = <<>>
  /\ n_adds = 0
  /\ threads = [t \in Threads |-> Idle]

\* the step of thread t to the thread state th, the file left as it is
Step(t, th) ==
  /\ threads' = [threads EXCEPT ![t] = th]
  /\ UNCHANGED <<pvars, svars>>
\* the request of thread th answered: its route, its session and its text stay
\* on record, its other locals are gone
Done(th) == [Idle EXCEPT !.route = th.route, !.pc = "done", !.sid = th.sid, !.text = th.text]
\* _save_db(db) by thread t: the whole file is replaced by what the thread holds
Save(t, th) ==
  /\ db' = threads[t].mem
  /\ threads' = [threads EXCEPT ![t] = [th EXCEPT !.mem = <<>>]]
  /\ UNCHANGED <<pvars, resp, added, finished, n_adds>>
\* the helper a route calls after get_or_create_session
AfterSession(route) ==
  CASE route = "home" -> "buf_load"
    [] route = "add" -> "app_load"
    [] route = "finish" -> "fin_load"
    [] route = "reset" -> "set_load"
\* the ids of no session, stored or being created; uuid4 returns one of them,
\* and as an id is read for nothing but equality the first stands for all
Unused == SessionIds \ (DOMAIN db \cup {threads[t].sid : t \in Threads})

\* a request arrives; the requests are numbered in the order of their arrival
Begin(t, route, cookie, text, drop) ==
  /\ threads[t].pc = "idle"
  /\ \A u \in 1..(t - 1) : threads[u].pc # "idle"
  /\ Step(t, [Idle EXCEPT !.route = route, !.pc = "goc_load", !.cookie = cookie,
                          !.text = text, !.drop = drop])

\* get_or_create_session, lines 31-38: _load_db, and the new session put into
\* the loaded copy
GocLoad(t) ==
  /\ threads[t].pc = "goc_load"
  /\ IF threads[t].cookie # NoCookie /\ threads[t].cookie \in DOMAIN db
       THEN Step(t, [threads[t] EXCEPT !.sid = threads[t].cookie,
                                       !.pc = AfterSession(threads[t].route)])
       ELSE \E fresh \in {i \in Unused : \A k \in Unused : i <= k} :
              Step(t, [threads[t] EXCEPT !.sid = fresh, !.pc = "goc_save",
                                         !.mem = Put(db, fresh, EmptySession)])
\* get_or_create_session, line 39: _save_db
GocSave(t) ==
  /\ threads[t].pc = "goc_save"
  /\ Save(t, [threads[t] EXCEPT !.pc = AfterSession(threads[t].route)])

\* append_to_buffer, lines 44-50: _load_db, and the text appended in the copy
AppLoad(t) ==
  /\ threads[t].pc = "app_load"
  /\ Step(t, [threads[t] EXCEPT
               !.mem = append_to_buffer(db, threads[t].sid, Strip(threads[t].text)),
               !.pc = "app_save"])
\* append_to_buffer, line 51: _save_db
AppSave(t) ==
  /\ threads[t].pc = "app_save"
  /\ Save(t, [threads[t] EXCEPT !.pc = "buf_load"])

\* get_buffer for the page that home and add_piece answer (lines 513, 528):
\* _load_db; the page is not kept
BufLoad(t) ==
  /\ threads[t].pc = "buf_load"
  /\ Step(t, Done(threads[t]))

\* finish, lines 543-546: get_buffer, parse_jobs, jobs_to_tsv
FinLoad(t) ==
  /\ threads[t].pc = "fin_load"
  /\ Step(t, [threads[t] EXCEPT
               !.out = jobs_to_tsv(parse_jobs(get_buffer(db, threads[t].sid), threads[t].drop)),
               !.pc = "res_load"])
\* set_last_result, lines 70-73: _load_db, and the result set in the copy
ResLoad(t) ==
  /\ threads[t].pc = "res_load"
  /\ Step(t, [threads[t] EXCEPT
               !.mem = set_last_result(db, threads[t].sid, threads[t].out),
               !.pc = "res_save"])
\* set_last_result, line 74: _save_db
ResSave(t) ==
  /\ threads[t].pc = "res_save"
  /\ Save(t, Done(threads[t]))

\* set_buffer(sid, "") of reset, lines 55-60: _load_db, and the record replaced
SetLoad(t) ==
  /\ threads[t].pc = "set_load"
  /\ Step(t, [threads[t] EXCEPT !.mem = set_buffer(db, threads[t].sid, <<>>),
                                 !.pc = "set_save"])
\* set_buffer, line 61: _save_db
SetSave(t) ==
  /\ threads[t].pc = "set_save"
  /\ Save(t, Done(threads[t]))

BeginHome == \E t \in Threads, c \in Cookies : Begin(t, "home", c, <<>>, FALSE)
BeginAdd == \E t \in Threads, c \in Cookies, x \in RaceTexts : Begin(t, "add", c, x, FALSE)
BeginFinish == \E t \in Threads, c \in Cookies : Begin(t, "finish", c, <<>>, TRUE)
BeginReset == \E t \in Threads, c \in Cookies : Begin(t, "reset", c, <<>>, FALSE)

NextRace ==
  \/ BeginHome \/ BeginAdd \/ BeginFinish \/ BeginReset
  \/ \E t \in Threads :
       \/ GocLoad(t) \/ GocSave(t)
       \/ AppLoad(t) \/ AppSave(t)
       \/ BufLoad(t)
       \/ FinLoad(t) \/ ResLoad(t) \/ ResSave(t)
       \/ SetLoad(t) \/ SetSave(t)

\* up to MaxRequests requests whose steps interleave in every way
SpecRace == InitRace /\ [][NextRace]_vars

\* ------------------------------------------------------------------
\* The input as the loop of parse_jobs reads it
\* ------------------------------------------------------------------
LineF(k) == Facts(lines[k])
\* lines 351-357: the line is passed over before anything is read off it
Skipped(k) == LineF(k).address \/ (drop_saw /\ LineF(k).saw)
TimeLine(k) == ~Skipped(k) /\ LineF(k).time # None
FlightLine(k) == ~Skipped(k) /\ LineF(k).flight # None
NameLine(k) == ~Skipped(k) /\ LineF(k).time = None /\ ~LineF(k).date /\ Len(LineF(k).names) > 0
TimeLines == {k \in 1..Len(lines) : TimeLine(k)}
\* the pickup-time line before line k, 0 when there is none
PrevTime(k) == MaxOf({0} \cup {m \in 1..(k - 1) : TimeLine(m)})
\* a name was collected between the pickup-time line before line k and line k
NamedBefore(k) == \E m \in (PrevTime(k) + 1)..(k - 1) : NameLine(m)
NamedTimeLines == {k \in TimeLines : NamedBefore(k)}
\* the names collected on the lines a..b
RECURSIVE NamesIn(_, _)
NamesIn(a, b) ==
  IF a > b THEN <<>>
  ELSE (IF NameLine(a) THEN LineF(a).names ELSE <<>>) \o NamesIn(a + 1, b)
\* the names pending when line k is reached
PendingAt(k) == NamesIn(PrevTime(k) + 1, k - 1)

\* ------------------------------------------------------------------
\* C1
\* ------------------------------------------------------------------
SubstantiveTimeLines ==
  {k \in 1..Len(lines) : LineF(k).time # None /\ ~LineF(k).address /\ ~LineF(k).noise}

\* C1, as the claim states it: parse_jobs returns as many records as there
\* are pickup-time tokens on the non-noise, non-address lines of the input.
C1_RowCountIsTimeTokenCount ==
  pc = "done" => Len(jobs) = Cardinality(SubstantiveTimeLines)

\* C1, amended: parse_jobs returns one record for each pickup-time line that
\* has a name collected between the pickup-time line before it and itself,
\* and none for the other pickup-time lines; with drop_saw set it may return
\* fewer, never more.
C1_RowCountIsNamedTimeLines ==
  pc = "done" =>
    /\ Len(jobs) <= Cardinality(NamedTimeLines)
    /\ ~drop_saw => Len(jobs) = Cardinality(NamedTimeLines)

\* two pickup-time lines were read and one record was returned
C1_TimeLineWithoutRecord ==
  pc = "done" /\ ~drop_saw /\ Cardinality(TimeLines) = 2 /\ Len(jobs) = 1

\* ------------------------------------------------------------------
\* C2
\* ------------------------------------------------------------------
IsHHMM(t) ==
  /\ Len(t) = 5
  /\ t[3] = ":"
  /\ \A i \in {1, 2, 4, 5} : IsDigit(t[i])
  /\ ToInt(Sub(t, 1, 2)) <= 23
  /\ ToInt(Sub(t, 4, 5)) <= 59

\* C2: every record of parse_jobs was appended while a line with a pickup time
\* was being processed, and its saat is that line's time as HH:MM, never "?".
C2_EveryRecordHasItsTime ==
  /\ Len(anchors) = Len(jobs)
  /\ \A j \in 1..Len(jobs) :
       /\ anchors[j] < idx
       /\ TimeLine(anchors[j])
       /\ jobs[j].saat = LineF(anchors[j]).time
       /\ IsHHMM(jobs[j].saat)
       /\ jobs[j].saat # Q

\* a record closed by "alis saat 7.30 QR12" carries 07:30
C2_RecordWithNormalizedTime ==
  /\ pc = "done"
  /\ \E j \in 1..Len(jobs) :
       lines[anchors[j]] = L_AlisQR /\ jobs[j].saat = <<"0", "7", ":", "3", "0">>
\* ------------------------------------------------------------------
\* C3
\* ------------------------------------------------------------------
RawLines == SplitLines(raw)
\* a person's name as it is typed: letters, with spaces between the words
PersonName(l) ==
  /\ Len(l) >= 2
  /\ \A i \in 1..Len(l) : IsLetter(l[i]) \/ l[i] = " "
  /\ IsLetter(l[1]) /\ IsLetter(l[Len(l)])
\* one or more lines of different names, a flight code, a time
NamesFlightTime(ls) ==
  /\ Len(ls) >= 3
  /\ OnlyTimeMatch(ls[Len(ls)])
  /\ FlightFullMatch(ls[Len(ls) - 1])
  /\ \A k \in 1..(Len(ls) - 2) : PersonName(ls[k])
  /\ \A k, m \in 1..(Len(ls) - 2) : k # m => ls[k] # ls[m]
OneRecord(ls) ==
  [saat |-> extract_pickup_time_from_line(ls[Len(ls)]),
   ucus |-> Upper(ls[Len(ls) - 1]),
   yolcu |-> Join(Sub(ls, 1, Len(ls) - 2), CommaSpace)]

\* C3, as the claim states it: for name lines, then a flight-code line, then
\* a line that is only a time, parse_jobs returns the one record of that
\* time, that flight and those names, and jobs_to_tsv renders it as the row
\* time, empty column, flight, names.
C3_NamesFlightTimeGiveOneRecord ==
  (pc = "done" /\ ~drop_saw /\ NamesFlightTime(RawLines)) =>
    /\ jobs = <<OneRecord(RawLines)>>
    /\ tsv = OneRecord(RawLines).saat \o TAB \o TAB \o OneRecord(RawLines).ucus
               \o TAB \o OneRecord(RawLines).yolcu

\* ------------------------------------------------------------------
\* C4
\* ------------------------------------------------------------------
\* names as one record lists them, stated apart from the loop of lines
\* 329-338: the stripped non-empty names, each where it is first seen
StrippedNames(names) ==
  SelectSeq([k \in DOMAIN names |-> Strip(names[k])], LAMBDA n : Len(n) > 0)
FirstIdx(s) == {k \in DOMAIN s : \A m \in 1..(k - 1) : s[m] # s[k]}
Nth(I, n) == CHOOSE k \in I : Cardinality({m \in I : m <= k}) = n
Pick(s, I) == [n \in 1..Cardinality(I) |-> s[Nth(I, n)]]
FirstSeen(s) == Pick(s, FirstIdx(s))
NamesText(names) == Join(FirstSeen(StrippedNames(names)), CommaSpace)

FlightLines == {k \in 1..Len(lines) : FlightLine(k)}
\* two pickup-time lines, and between them the one flight line of the input
TwoTimesOneFlightBetween ==
  /\ Cardinality(TimeLines) = 2
  /\ Cardinality(FlightLines) = 1
  /\ \A f \in FlightLines : MinOf(TimeLines) < f /\ f < MaxOf(TimeLines)
\* the pickup-time line after line k, the end of the input when there is none
NextTime(k) == MinOf({Len(lines) + 1} \cup {m \in (k + 1)..Len(lines) : TimeLine(m)})

\* C4, as the claim states it: two time tokens with one flight line between
\* them give two records, and every name goes to the record of the nearest
\* time anchor before it.
C4_TwoRecordsNamesAfterTheirTime ==
  (pc = "done" /\ TwoTimesOneFlightBetween) =>
    /\ Len(jobs) = 2
    /\ \A j \in 1..Len(jobs) :
         jobs[j].yolcu = NamesText(NamesIn(anchors[j] + 1, NextTime(anchors[j]) - 1))

\* C4, amended: with two pickup-time lines and one flight line between them,
\* parse_jobs returns a record for each of the two that has a name collected
\* before it (two records only when both have), never one merged record;
\* every name goes to the record of the nearest pickup-time line after it,
\* and the flight goes to the record of the second pickup-time line only.
C4_NamesGoToTheFollowingTime ==
  (pc = "done" /\ TwoTimesOneFlightBetween) =>
    /\ {anchors[j] : j \in 1..Len(anchors)} = NamedTimeLines
    /\ Len(jobs) = Cardinality(NamedTimeLines)
    /\ \A j \in 1..Len(jobs) :
         /\ jobs[j].yolcu = NamesText(PendingAt(anchors[j]))
         /\ jobs[j].ucus = IF anchors[j] = MaxOf(TimeLines)
                             THEN LineF(MaxOf(FlightLines)).flight ELSE Q

\* the two records of Al / 9:05 / TK17 / AL / 9:05, or of a text like it
C4_TwoSeparateRecords ==
  /\ pc = "done"
  /\ TwoTimesOneFlightBetween
  /\ Len(jobs) = 2
  /\ jobs[1].ucus = Q
  /\ jobs[2].ucus = L_TK17
  /\ jobs[1].yolcu # jobs[2].yolcu

\* ------------------------------------------------------------------
\* C5
\* ------------------------------------------------------------------
TsvRows == SplitLines(tsv)

C6_ResetWipesBufferAndResult ==
  resp.route = "reset" =>
    /\ get_buffer(db, resp.sid) = <<>>
    /\ get_last_result(db, resp.sid) = <<>>

\* C6, amended: /reset empties the buffer of the session and keeps its last
\* result: the last result of a session is at all times the table of its
\* latest /finish, and /download returns that table, after a /reset too.
C6_ResetKeepsLastResult ==
  /\ \A sid \in DOMAIN db : get_last_result(db, sid) = HistOf(finished, sid)
  /\ resp.route = "reset" => get_buffer(db, resp.sid) = <<>>
  /\ resp.route = "download" => resp.body = BOM \o HistOf(finished, resp.sid)

\* a download of rows from a session whose buffer a /reset has emptied since
\* the /finish that produced them
C6_DownloadAfterReset ==
  /\ resp.route = "download"
  /\ get_buffer(db, resp.sid) = <<>>
  /\ Len(resp.body) > Len(BOM)

\* ------------------------------------------------------------------
\* C7
\* ------------------------------------------------------------------
StrippedAdds(sid) ==
  SelectSeq([k \in 1..Len(HistOf(added, sid)) |-> Strip(HistOf(added, sid)[k])],
            LAMBDA t : Len(t) > 0)

\* C7: the buffer of a session is the stripped non-empty texts added since its
\* creation or last /reset, in call order, joined by one newline each; an
\* empty text adds nothing, and no blank line appears.
C7_BufferIsJoinedAdds ==
  \A sid \in DOMAIN db :
    /\ get_buffer(db, sid) = Join(StrippedAdds(sid), NL)
    /\ ~Contains(get_buffer(db, sid), NL \o NL)

\* three /add calls on one session, the second with an empty text
C7_ThreeAddsOneEmpty ==
  \E sid \in DOMAIN db :
    /\ HistOf(added, sid) = <<T_Job, T_Empty, T_Flight>>
    /\ get_buffer(db, sid) = L_Al \o NL \o L_0905 \o NL \o L_TK17

\* ------------------------------------------------------------------
\* C8
\* ------------------------------------------------------------------
\* the same list with repeats recognised whatever their letter case
FirstIdxFold(s) == {k \in DOMAIN s : \A m \in 1..(k - 1) : Upper(s[m]) # Upper(s[k])}
NamesTextFold(names) ==
  Join(Pick(StrippedNames(names), FirstIdxFold(StrippedNames(names))), CommaSpace)

\* C8, as the claim states it: in a record's passenger list, names that differ
\* only by letter case or by surrounding whitespace are one entry, the first
\* seen.
C8_RepeatsCollapseIgnoringCase ==
  \A j \in 1..Len(jobs) : jobs[j].yolcu = NamesTextFold(PendingAt(anchors[j]))

\* C8, amended: in a record's passenger list, names that differ only by
\* surrounding whitespace are one entry, the first seen, in first-seen order;
\* names that differ by letter case are separate entries.
C8_RepeatsCollapseExactly ==
  \A j \in 1..Len(jobs) : jobs[j].yolcu = NamesText(PendingAt(anchors[j]))

\* Al, " Al" and AL were pending, and the record lists Al and AL
C8_CaseKeptSpacesDropped ==
  \E j \in 1..Len(jobs) :
    /\ PendingAt(anchors[j]) = <<L_Al, <<" ">> \o L_Al, L_AL>>
    /\ jobs[j].yolcu = L_Al \o CommaSpace \o L_AL

\* ------------------------------------------------------------------
\* C9
\* ------------------------------------------------------------------
\* C9, as the claim states it: the flight of a line that has a pickup time too
\* is never put on the record that was open before that line.
C9_FlightOfTimeLineStartsNewRecord ==
  \A j \in 1..Len(jobs) :
    FlightLine(anchors[j]) => jobs[j].ucus # LineF(anchors[j]).flight

\* C9, amended: a line with a pickup time and a flight closes the record that
\* was open before it, and that record takes the line's flight; the line
\* starts no record: after it no flight and no name is pending.
C9_FlightOfTimeLineClosesOpenRecord ==
  /\ \A j \in 1..Len(jobs) :
       FlightLine(anchors[j]) => jobs[j].ucus = LineF(anchors[j]).flight
  /\ (pc \in {"loop", "done"} /\ idx > 1 /\ TimeLine(idx - 1) /\ FlightLine(idx - 1)) =>
       pending_flight = Q /\ pending_names = <<>>

\* Al was pending when "alis saat 7.30 QR12" was read: one record, of Al on QR12
C9_OpenRecordTakesTheFlight ==
  /\ pc = "done"
  /\ \E j \in 1..Len(jobs) :
       /\ lines[anchors[j]] = L_AlisQR
       /\ jobs[j].ucus = <<"Q", "R", "1", "2">>
       /\ jobs[j].yolcu = L_Al

FinalizingTime(k) ==
  /\ TimeLine(k)
  /\ \/ \E m \in (PrevTime(k) + 1)..(k - 1) : NameLine(m)
     \/ \E m \in (PrevTime(k) + 1)..k : FlightLine(m)
PrevFinalizing(k) == MaxOf({0} \cup {m \in 1..(k - 1) : FinalizingTime(m)})
\* the lines after the finalizing pickup-time line before line k, up to line k
\* itself, that a flight code was read off
FlightsSince(k) == {m \in (PrevFinalizing(k) + 1)..k : FlightLine(m)}

\* C11: the flight of every record is the flight code of the last line with
\* one among the lines after the previous finalizing pickup-time line, up to
\* and including the line that emitted the record, and "?" when no such line
\* has a flight code; a flight code of an earlier record is not carried over.
C11_FlightIsLastSinceFinalize ==
  \A j \in 1..Len(jobs) :
    jobs[j].ucus = IF FlightsSince(anchors[j]) = {} THEN Q
                   ELSE LineF(MaxOf(FlightsSince(anchors[j]))).flight

\* a record with the flight of its own pickup-time line, then a record of
\* later names with "?"
C11_SecondRecordWithoutFlight ==
  /\ pc = "done"
  /\ Len(jobs) = 2
  /\ FlightLine(anchors[1])
  /\ jobs[1].ucus = LineF(anchors[1]).flight
  /\ jobs[2].ucus = Q

\* ------------------------------------------------------------------
\* C12
\* ------------------------------------------------------------------
\* an address as the claim describes it: an address keyword, and three or
\* more comma-separated segments
KeywordAndSegments(cl) ==
  /\ \E kw \in AddressKeywords : Contains(Upper(cl), kw)
  /\ Len(Split(cl, ",")) >= 3
\* the cleaned lines of the vocabularies that are such addresses
CleanedAddresses == {p[2] : p \in {q \in CleanPairs : KeywordAndSegments(q[2])}}
IsAddressLine(cl) ==
  IF \E p \in CleanPairs : p[2] = cl THEN cl \in CleanedAddresses ELSE KeywordAndSegments(cl)
AddressLines == {k \in 1..Len(lines) : IsAddressLine(lines[k])}
WithoutAddresses == SelectSeq(lines, LAMBDA cl : ~IsAddressLine(cl))

\* C12: a line with an address keyword and three or more comma-separated
\* segments adds nothing to the passenger field of any record, whatever lines
\* come before or after it: the records are those of the input without such
\* lines, and no record lists a name read off such a line.
C12_AddressLinesAddNoPassenger ==
  pc = "done" =>
    /\ jobs = ParseLoop(NoPending(<<>>), WithoutAddresses, drop_saw).jobs
    /\ \A j \in 1..Len(jobs) : \A k \in AddressLines :
         \A n \in Range(LineF(k).names) : ~Contains(jobs[j].yolcu, n)

\* an address line between a name and the pickup time that closes its record,
\* off which a name would be read were it not passed over
C12_AddressInsideARecord ==
  /\ pc = "done"
  /\ Len(jobs) = 1
  /\ \E k \in AddressLines :
       /\ PrevTime(anchors[1]) < k /\ k < anchors[1]
       /\ \E m \in 1..(k - 1) : NameLine(m)
       /\ LineF(k).names # <<>>

\* ------------------------------------------------------------------
\* C13
\* ------------------------------------------------------------------
\* the row of a record: its time, an empty column, its flight, its names
RowText(j) ==
  j.saat \o TAB \o TAB \o j.ucus \o TAB \o (IF j.yolcu = <<>> THEN Q ELSE j.yolcu)

OnAlisLine == StartsWith(RawLines[2], AlisPrefix)
Token == IF OnAlisLine THEN Drop(RawLines[2], Len(AlisPrefix)) ELSE RawLines[2]
SepAt == MinOf({i \in 1..Len(Token) : Token[i] \in {":", "."}})
HourText == Sub(Token, 1, SepAt - 1)
MinuteText == Sub(Token, SepAt + 1, Len(Token))
ValidHour == Len(HourText) \in {1, 2} /\ ToInt(HourText) <= 23
ValidMinute(m) == Len(m) = 2 /\ ToInt(m) <= 59
\* HH:MM of the hour as typed and two minute digits
Padded(h, m) == (IF Len(h) = 1 THEN <<"0">> \o h ELSE h) \o <<":">> \o m
\* the one record of the name line, closed at that time
RecordAt(t) == <<[saat |-> t, ucus |-> Q, yolcu |-> L_Al]>>

\* C14, as the claim states it: a token H:MM, HH:MM, H.MM or HH.MM with hour
\* 0-23 and minute 00-59 is emitted as HH:MM with the digits typed, the hour
\* zero-padded; every token with another minute (one digit, three digits, 60
\* and above) is rejected as no time, and no record is emitted at it.
C14_OtherMinutesAreRejected ==
  pc = "done" =>
    jobs = IF ValidHour /\ ValidMinute(MinuteText) THEN RecordAt(Padded(HourText, MinuteText))
           ELSE <<>>

\* What the code does with the tokens tried: a token H:MM, HH:MM, H.MM or
\* HH.MM with hour 0-23 and minute 00-59 is emitted as HH:MM with the digits
\* typed, the hour zero-padded; a token with a one-digit minute, a minute 60
\* and above or an hour 24 and above is rejected. Digits typed after two
\* minute digits make a line that is only the token no time, while after
\* "alis saat" they are dropped: the token is read as the hour and its first
\* two minute digits.
TokenOutcome ==
  pc = "done" =>
    jobs = IF ValidHour /\ ValidMinute(MinuteText) THEN RecordAt(Padded(HourText, MinuteText))
           ELSE IF OnAlisLine /\ ValidHour /\ Len(MinuteText) > 2 /\ ValidMinute(Sub(MinuteText, 1, 2))
             THEN RecordAt(Padded(HourText, Sub(MinuteText, 1, 2)))
           ELSE <<>>

\* ------------------------------------------------------------------
\* C15
\* ------------------------------------------------------------------
\* the first line as given, the left side of its first colon-and-space, and
\* what follows them
ChatLine == RawLines[1]
LabelEnd == First({i \in 1..(Len(ChatLine) - 1) : ChatLine[i] = ":" /\ ChatLine[i + 1] = " "})
LeftSide == Sub(ChatLine, 1, LabelEnd - 1)
AfterLabel == Drop(ChatLine, LabelEnd + 1)
HasSenderLabel ==
  /\ LabelEnd > 0
  /\ \E i \in 1..Len(LeftSide) : IsLetter(LeftSide[i])
  /\ ~OnlyTimeMatch(LeftSide)

\* C15, as the claim states it: clean_line strips a leading sender label and
\* its colon when the left side of the colon has letters, so that only what
\* follows the label reaches the passenger field; a line whose left side of
\* the colon is a time token has nothing stripped.
C15_SenderLabelIsStripped ==
  pc # "clean" =>
    /\ HasSenderLabel =>
         /\ lines[1] = AfterLabel
         /\ \A j \in 1..Len(jobs) : jobs[j].yolcu = AfterLabel
    /\ (LabelEnd > 0 /\ OnlyTimeMatch(LeftSide)) => lines[1] = ChatLine

\* ------------------------------------------------------------------
\* C16
\* ------------------------------------------------------------------
\* the names of the name lines a..b whose first following pickup-time line is t
RECURSIVE NamesClosedBy(_, _, _)
NamesClosedBy(a, b, t) ==
  IF a > b THEN <<>>
  ELSE (IF NameLine(a) /\ NextTime(a) = t THEN LineF(a).names ELSE <<>>)
         \o NamesClosedBy(a + 1, b, t)
LastTime == MaxOf({0} \cup TimeLines)
UpToLastTime == Sub(lines, 1, LastTime)

\* C16: every record was closed by a pickup-time line of its own, and its
\* passenger field lists the name fragments whose first following
\* pickup-time line is that line, and no others, so that a fragment is in at
\* most one record; what comes after the last pickup-time line of the input
\* is in no record: the records are those of the input cut after that line.
C16_NamesGoToOneRecord ==
  /\ \A j \in 1..Len(jobs) : anchors[j] \in TimeLines
  /\ \A i, j \in 1..Len(jobs) : i # j => anchors[i] # anchors[j]
  /\ \A j \in 1..Len(jobs) :
       jobs[j].yolcu = NamesText(NamesClosedBy(1, Len(lines), anchors[j]))
  /\ pc = "done" => jobs = ParseLoop(NoPending(<<>>), UpToLastTime, drop_saw).jobs

\* a name before a pickup-time line, and a name and a flight after the last
\* pickup-time line: one record, without them
C16_NameAndFlightAfterLastTime ==
  /\ pc = "done"
  /\ Len(jobs) = 1
  /\ anchors[1] = LastTime
  /\ \E k, m \in (LastTime + 1)..Len(lines) : NameLine(k) /\ FlightLine(m)

\* ------------------------------------------------------------------
\* C17
\* ------------------------------------------------------------------
\* a line with "SAW" in it, in any letter case
SawLine(k) == LineF(k).saw
\* a SAW line between the pickup-time line before line k and line k
SawBefore(k) == \E m \in (PrevTime(k) + 1)..(k - 1) : SawLine(m)
HasRecord(k) == \E j \in 1..Len(jobs) : anchors[j] = k

\* C17, as the claim states it: with drop_saw set, the record that a
\* pickup-time line closes is discarded if and only if a SAW line stands
\* between the pickup-time line before it and itself, so that a SAW line
\* before an earlier pickup-time line discards no later record; with
\* drop_saw unset no record is discarded.
C17_SawDropsItsOwnRecordOnly ==
  pc = "done" => \A k \in NamedTimeLines : HasRecord(k) <=> ~(drop_saw /\ SawBefore(k))

\* ------------------------------------------------------------------
\* C18
\* ------------------------------------------------------------------
\* the table of a buffer, for a flag
TableOf(buffer, drop) == jobs_to_tsv(parse_jobs(buffer, drop))
\* C18: when /finish has answered, the buffer of its session is still the
\* texts added to it, and the last result of the session, which is also the
\* answer, is the table of parse_jobs over that whole buffer for the flag
\* given: a function of the buffer and the flag alone, so that a /finish
\* that follows with the same flag stores the same result.
C18_FinishRendersTheWholeBuffer ==
  resp.route = "finish" =>
    /\ get_buffer(db, resp.sid) = Join(StrippedAdds(resp.sid), NL)
    /\ get_last_result(db, resp.sid) = TableOf(get_buffer(db, resp.sid), drop_saw)
    /\ resp.body = get_last_result(db, resp.sid)

\* /finish has answered with a row, and the buffer still holds the text
C18_FinishWithRowsKeepsBuffer ==
  /\ resp.route = "finish"
  /\ Len(resp.body) > 0
  /\ get_buffer(db, resp.sid) = L_Al \o NL \o L_0905

\* ------------------------------------------------------------------
\* C19
\* ------------------------------------------------------------------
\* C19, as the claim states it: no step of a request (/, /add, /finish or
\* /reset, the creation of its session included) changes the stored record,
\* buffer or last result, of a session other than the request's own, however
\* the loads and saves of the requests in progress interleave.
C19_OtherSessionsUntouched ==
  [][\A t \in Threads :
       threads'[t] # threads[t] =>
         \A b \in DOMAIN db :
           b # threads'[t].sid => b \in DOMAIN db' /\ db'[b] = db[b]]_vars

\* ------------------------------------------------------------------
\* C20
\* ------------------------------------------------------------------
\* every request made has been answered
Quiet == \A t \in Threads : threads[t].pc \in {"idle", "done"}
\* the requests made are /add and /finish requests of one session
AddsAndFinishesOfOneSession ==
  /\ \A t \in Threads : threads[t].route \in {"idle", "add", "finish"}
  /\ \A t, u \in Threads :
       (threads[t].route # "idle" /\ threads[u].route # "idle") => threads[t].sid = threads[u].sid
\* the /add requests of the text of request t in its session
SameAdds(t) ==
  {u \in Threads : /\ threads[u].route = "add"
                   /\ threads[u].sid = threads[t].sid
                   /\ threads[u].text = threads[t].text}
Occurrences(s, w) == Cardinality({i \in 1..Len(s) : StartsWithAt(s, i, w)})

\* C20, as the claim states it: once concurrent /add and /finish requests of
\* one session have all been answered, the buffer of the session holds the
\* text of every /add, as many times as it was added, however their loads
\* and saves interleaved.
C20_NoAddIsLost ==
  (Quiet /\ AddsAndFinishesOfOneSession) =>
    \A t \in Threads :
      threads[t].route = "add" =>
        Occurrences(get_buffer(db, threads[t].sid), Strip(threads[t].text))
          >= Cardinality(SameAdds(t))
====
